---- MODULE Spec2Model ----
(***************************************************************************)
(* The sales ETL pipeline of dags/sales_etl.py: the three tasks extract,   *)
(* transform and load, the scheduler's wiring of them (extract >>          *)
(* transform >> load, with the retries the decorators configure), and the  *)
(* vendas table the load task writes through a non-autocommit connection.  *)
(*                                                                         *)
(* Values.  A cell of a record is [k, v, s]: k is the kind ("null" for     *)
(* NaN/None, "int", "float", "str"), v the number and s the text.  A float *)
(* is held in tenths (v = 25 is 2.5), so that truncation by astype(int)    *)
(* and the product quantity * price are computed, not assumed.             *)
(***************************************************************************)
EXTENDS Integers, Sequences, FiniteSets, TLC

VARIABLES
    env,          \* the SALES_CSV environment variable: [set, val]
    fs,           \* the file system: path -> [exists, header, rows]
    task,         \* scheduler state of extract and transform in the current run
    tries,        \* failed attempts of extract in the current run
    err,          \* the exception each task last raised: [kind, cols]
    raw,          \* return value of extract (XCom), None before
    cleaned,      \* return value of transform (XCom), None before
    ld,           \* the executions of load: p -> [pc, rows, idx, pending, tries, err, calls]
    table,        \* committed rows of vendas
    tableExists,  \* whether vendas exists (committed)
    table0,       \* [exists, rows]: the table when the current run started
    run,          \* number of the current pipeline run
    snap,         \* [ok, rows]: how the previous run ended
    faults        \* statements the database has failed so far

vars == <<env, fs, task, tries, err, raw, cleaned, ld, table, tableExists, table0, run, snap, faults>>

-----------------------------------------------------------------------------
(* Bounds of the model *)

MaxRows == 2

MaxRuns == 2

MaxBatch == 2

MaxFaults == 1

-----------------------------------------------------------------------------
(* Cells *)

Null == [k |-> "null", v |-> 0, s |-> ""]

IntC(n) == [k |-> "int", v |-> n, s |-> ""]

FloatC(t) == [k |-> "float", v |-> t, s |-> ""]

StrC(x) == [k |-> "str", v |-> 0, s |-> x]

\* An XCom: nothing yet, or the rows a task returned
None == [some |-> FALSE, rows |-> <<>>]

Some(rows) == [some |-> TRUE, rows |-> rows]

\* The path csv_path: no file there, or the header and lines of the file
NoFile == [exists |-> FALSE, header |-> {}, rows |-> <<>>]

NoErr == [kind |-> "", cols |-> {}]

Raise(kind, cols) == [kind |-> kind, cols |-> cols]

-----------------------------------------------------------------------------
(* Columns *)

AllCols == {"sale_id", "product", "category", "region", "quantity", "price", "sale_date", "total"}

\* The required set with product left out
required_without_product == {"sale_id", "quantity", "price", "sale_date"}

required == {"sale_id", "product", "quantity", "price", "sale_date"}

dropna_subset == {"sale_id", "quantity", "price", "sale_date"}

-----------------------------------------------------------------------------
(* The retries the task decorators configure *)

ExtractRetries == 1

LoadRetries == 2

-----------------------------------------------------------------------------
(* Text of a CSV cell, and what the parsers make of it.  The literals are  *)
(* the texts that occur in the files of the model.                         *)

IntLits == {"1", "2", "3"}

NumLits == IntLits \cup {"1.5", "2.5", "99.9"}

DateLits == {"2025-01-05", "2025/01/06"}

\* float(s), in tenths
LitTenths(s) ==
    CASE s = "1" -> 10 [] s = "2" -> 20 [] s = "3" -> 30
      [] s = "1.5" -> 15 [] s = "2.5" -> 25 [] s = "99.9" -> 999 [] OTHER -> 0

\* pd.to_datetime(s) as a day of January 2025, and strftime("%Y-%m-%d") of it
DayOf(s) == CASE s = "2025-01-05" -> 5 [] s = "2025/01/06" -> 6 [] OTHER -> 0

IsoOf(d) == CASE d = 5 -> "2025-01-05" [] d = 6 -> "2025-01-06" [] OTHER -> ""

Trunc(t) == IF t >= 0 THEN t \div 10 ELSE -((-t) \div 10)

-----------------------------------------------------------------------------
(* extract *)

\* pd.read_csv's dtype of one column, from the texts of its cells
ColumnKind(texts) ==
    IF \A x \in texts : x \in IntLits THEN "int"
    ELSE IF \A x \in texts : x = "" \/ x \in NumLits THEN "float"
    ELSE "object"

\* pd.read_csv(csv_path).to_dict(orient="records")
read_csv(file) ==
    LET n == Len(file.rows)
        kind(c) == ColumnKind({file.rows[i][c] : i \in 1..n})
        cell(c, x) ==
            IF x = "" THEN Null
            ELSE CASE kind(c) = "int" -> IntC(LitTenths(x) \div 10)
                   [] kind(c) = "float" -> FloatC(LitTenths(x))
                   [] OTHER -> StrC(x)
    IN  [i \in 1..n |-> [c \in file.header |-> cell(c, file.rows[i][c])]]

\* extract without the existence check, an absent file read as no rows
extract_body_unchecked(file) ==
    [ok |-> TRUE, rows |-> IF ~file.exists THEN <<>> ELSE read_csv(file), err |-> NoErr]

\* The fixed default path, and a path SALES_CSV may name instead
default == "/usr/local/airflow/include/vendas.csv"

OtherPath == "/data/vendas.csv"

Unset == [set |-> FALSE, val |-> ""]

\* Path(os.getenv(SALES_CSV_ENV, str(default)))
csv_path == IF env.set THEN env.val ELSE default

\* The body of extract on the file at csv_path: [ok, rows, err]
extract_body(file) ==
    IF ~file.exists
    THEN [ok |-> FALSE, rows |-> <<>>, err |-> Raise("FileNotFoundError", {})]
    ELSE [ok |-> TRUE, rows |-> read_csv(file), err |-> NoErr]

-----------------------------------------------------------------------------
(* transform *)

\* One element under Series.astype(int): [ok, val]
AsInt(x) ==
    CASE x.k = "int" -> [ok |-> TRUE, val |-> x]
      [] x.k = "float" -> [ok |-> TRUE, val |-> IntC(Trunc(x.v))]
      [] x.k = "str" -> IF x.s \in IntLits
                        THEN [ok |-> TRUE, val |-> IntC(LitTenths(x.s) \div 10)]
                        ELSE [ok |-> FALSE, val |-> Null]
      [] OTHER -> [ok |-> FALSE, val |-> Null]

\* One element under Series.astype(float): NaN stays NaN
AsFloat(x) ==
    CASE x.k = "int" -> [ok |-> TRUE, val |-> FloatC(10 * x.v)]
      [] x.k = "float" -> [ok |-> TRUE, val |-> x]
      [] x.k = "str" -> IF x.s \in NumLits
                        THEN [ok |-> TRUE, val |-> FloatC(LitTenths(x.s))]
                        ELSE [ok |-> FALSE, val |-> Null]
      [] OTHER -> [ok |-> TRUE, val |-> Null]

\* One element under pd.to_datetime(...).dt.strftime("%Y-%m-%d"): NaN -> NaT -> NaN
AsDate(x) ==
    CASE x.k = "null" -> [ok |-> TRUE, val |-> Null]
      [] x.k = "str" /\ x.s \in DateLits -> [ok |-> TRUE, val |-> StrC(IsoOf(DayOf(x.s)))]
      [] OTHER -> [ok |-> FALSE, val |-> Null]

\* df["quantity"] * df["price"], after the coercion: int * float, NaN if price is NaN
Product(q, p) == IF p.k = "null" \/ q.k = "null" THEN Null ELSE FloatC(q.v * p.v)

\* df.columns of pd.DataFrame(rows): the keys seen in any record
Columns(rows) == UNION {DOMAIN rows[i] : i \in 1..Len(rows)}

\* The coercion with an incoming total kept instead of recomputed
CoerceRow_keep_total(r) ==
    LET q == AsInt(r["quantity"]).val
        p == AsFloat(r["price"]).val
    IN  [c \in DOMAIN r \cup {"total"} |->
            CASE c = "sale_id" -> AsInt(r[c]).val
              [] c = "quantity" -> q
              [] c = "price" -> p
              [] c = "sale_date" -> AsDate(r[c]).val
              [] c = "total" -> IF "total" \in DOMAIN r /\ r[c].k # "null" THEN r[c] ELSE Product(q, p)
              [] OTHER -> r[c]]

\* Lines 89-95 on one record, once every column has been found coercible
CoerceRow(r) ==
    LET q == AsInt(r["quantity"]).val
        p == AsFloat(r["price"]).val
    IN  [c \in DOMAIN r \cup {"total"} |->
            CASE c = "sale_id" -> AsInt(r[c]).val
              [] c = "quantity" -> q
              [] c = "price" -> p
              [] c = "sale_date" -> AsDate(r[c]).val
              [] c = "total" -> Product(q, p)
              [] OTHER -> r[c]]

\* The first column whose astype / to_datetime raises, in the order of lines 89-93
FirstBadColumn(rows) ==
    LET bad(c) == \E i \in 1..Len(rows) :
                     CASE c = "price" -> ~AsFloat(rows[i][c]).ok
                       [] c = "sale_date" -> ~AsDate(rows[i][c]).ok
                       [] OTHER -> ~AsInt(rows[i][c]).ok
    IN  CASE bad("sale_id") -> "sale_id"
          [] bad("quantity") -> "quantity"
          [] bad("price") -> "price"
          [] bad("sale_date") -> "sale_date"
          [] OTHER -> ""

\* df.dropna(subset=[...]) keeps a record iff none of the four is NaN
Complete(r) == \A c \in dropna_subset : r[c].k # "null"

\* transform with the coercion caught per record: a record that does not coerce is dropped
transform_body_row_by_row(rows) ==
    IF ~(required \subseteq Columns(rows))
    THEN [ok |-> FALSE, rows |-> <<>>,
          err |-> Raise("MissingColumns", required \ Columns(rows))]
    ELSE [ok |-> TRUE,
          rows |-> SelectSeq([i \in 1..Len(SelectSeq(rows, LAMBDA r : FirstBadColumn(<<r>>) = "")) |->
                                 CoerceRow(SelectSeq(rows, LAMBDA r : FirstBadColumn(<<r>>) = "")[i])],
                             Complete),
          err |-> NoErr]

\* The body of transform: [ok, rows, err]
transform_body(rows) ==
    IF ~(required \subseteq Columns(rows))
    THEN [ok |-> FALSE, rows |-> <<>>,
          err |-> Raise("MissingColumns", required \ Columns(rows))]
    ELSE IF FirstBadColumn(rows) # ""
    THEN [ok |-> FALSE, rows |-> <<>>,
          err |-> Raise("CoercionError", {FirstBadColumn(rows)})]
    ELSE [ok |-> TRUE,
          rows |-> SelectSeq([i \in 1..Len(rows) |-> CoerceRow(rows[i])], Complete),
          err |-> NoErr]

-----------------------------------------------------------------------------
(* load and the vendas table.  The table and a transaction's uncommitted   *)
(* inserts are sequences of rows, a row being a record over AllCols.       *)

\* The table without its primary key
no_primary_key == FALSE

\* sale_id INTEGER PRIMARY KEY
primary_key == TRUE

\* The INSERT with DO UPDATE, and with no ON CONFLICT clause
on_conflict_update == "update"

on_conflict_error == "error"

\* ON CONFLICT (sale_id) DO NOTHING; "error" is a plain INSERT, "update" is DO UPDATE
on_conflict == "nothing"

\* The commit moved inside the loop over the batch
commit_inside_loop == TRUE

\* cur.executemany(...) runs every INSERT in one transaction; conn.commit() follows once
commit_each_row == FALSE

\* load without its early return
no_fast_path(rows) == FALSE

\* if not rows: return
fast_path(rows) == rows = <<>>

\* r["sale_id"], ..., r["total"] all succeed: no KeyError
HasKeys(r) == AllCols \subseteq DOMAIN r

\* The tuple the values list holds for record r
Tuple(r) == [c \in AllCols |-> r[c]]

Range(q) == {q[i] : i \in 1..Len(q)}

Ids(q) == {q[i]["sale_id"].v : i \in 1..Len(q)}

Without(q, id) == SelectSeq(q, LAMBDA r : r["sale_id"].v # id)

\* A row with v's key is already there, as the unique index sees it
Conflicts(q, v) == primary_key /\ v["sale_id"].v \in Ids(q)

\* Rows q after the INSERT of v reaches them
Put(q, v) ==
    IF Conflicts(q, v)
    THEN IF on_conflict = "update" THEN Append(Without(q, v["sale_id"].v), v) ELSE q
    ELSE Append(q, v)

RECURSIVE PutAll(_, _)
PutAll(q, ins) == IF ins = <<>> THEN q ELSE PutAll(Put(q, Head(ins)), Tail(ins))

Idle == [pc |-> "wait", rows |-> <<>>, idx |-> 0, pending |-> <<>>, tries |-> 0,
         err |-> "", calls |-> <<>>]

Ready(rows) == [Idle EXCEPT !.pc = "ready", !.rows = rows]

\* The exception leaves load: the connection is dropped uncommitted, and the
\* scheduler runs the task again from scratch while retries remain (idx stays
\* at the statement that failed until the next attempt prepares its values)
Failed(l, e) ==
    [l EXCEPT !.pc = IF l.tries < LoadRetries THEN "ready" ELSE "failed",
              !.tries = l.tries + 1, !.pending = <<>>, !.err = e,
              !.calls = IF l.tries < LoadRetries THEN <<>> ELSE l.calls]

\* Lines 112-119: the empty batch returns at once, any other gets a connection
load_begin(p) ==
    /\ ld[p].pc = "ready"
    /\ ld' = [ld EXCEPT ![p] =
                IF fast_path(ld[p].rows)
                THEN [@ EXCEPT !.pc = "success"]
                ELSE [@ EXCEPT !.pc = "conn", !.calls = <<"get_conn">>]]
    /\ UNCHANGED <<env, fs, task, tries, err, raw, cleaned, table, tableExists, table0, run, snap, faults>>

\* Lines 134-153: CREATE TABLE IF NOT EXISTS, its commit, then the values list
load_create(p) ==
    /\ ld[p].pc = "conn"
    /\ tableExists' = TRUE
    /\ LET l == [ld[p] EXCEPT !.calls = @ \o <<"execute_create", "commit">>]
       IN  ld' = [ld EXCEPT ![p] =
                    IF \A i \in 1..Len(l.rows) : HasKeys(l.rows[i])
                    THEN [l EXCEPT !.pc = "insert", !.idx = 1,
                                   !.calls = @ \o <<"executemany">>]
                    ELSE Failed(l, "KeyError")]
    /\ UNCHANGED <<env, fs, task, tries, err, raw, cleaned, table, table0, run, snap, faults>>

\* Another open transaction holds an uncommitted row with v's key: the INSERT waits
Blocked(p, v) ==
    /\ ~Conflicts(table, v)
    /\ ~Conflicts(ld[p].pending, v)
    /\ \E q \in DOMAIN ld \ {p} : Conflicts(ld[q].pending, v)

\* Line 162: the next INSERT of the batch
load_insert(p) ==
    /\ ld[p].pc = "insert"
    /\ ld[p].idx <= Len(ld[p].rows)
    /\ LET v == Tuple(ld[p].rows[ld[p].idx])
           seen == table \o ld[p].pending
       IN  /\ ~Blocked(p, v)
           /\ IF Conflicts(seen, v) /\ on_conflict = "error"
              THEN /\ ld' = [ld EXCEPT ![p] = Failed(@, "UniqueViolation")]
                   /\ table' = table
              ELSE IF commit_each_row
              THEN /\ ld' = [ld EXCEPT ![p].idx = @ + 1]
                   /\ table' = Put(table, v)
              ELSE /\ ld' = [ld EXCEPT ![p].idx = @ + 1,
                                       ![p].pending = IF Conflicts(table, v) /\ on_conflict # "update"
                                                      THEN @ ELSE Put(@, v)]
                   /\ table' = table
    /\ UNCHANGED <<env, fs, task, tries, err, raw, cleaned, tableExists, table0, run, snap, faults>>

\* Line 163: conn.commit() after the whole batch
load_commit(p) ==
    /\ ld[p].pc = "insert"
    /\ ld[p].idx > Len(ld[p].rows)
    /\ table' = PutAll(table, ld[p].pending)
    /\ ld' = [ld EXCEPT ![p].pc = "success", ![p].pending = <<>>, ![p].idx = 0,
                        ![p].calls = @ \o <<"commit">>]
    /\ UNCHANGED <<env, fs, task, tries, err, raw, cleaned, tableExists, table0, run, snap, faults>>

\* The database fails a statement (connection lost, query failure): the
\* exception leaves load before any commit of the batch
db_fault(p) ==
    /\ \/ ld[p].pc = "conn"
       \/ ld[p].pc = "insert" /\ ld[p].idx <= Len(ld[p].rows)
    /\ faults < MaxFaults
    /\ faults' = faults + 1
    /\ ld' = [ld EXCEPT ![p] = Failed(@, "OperationalError")]
    /\ UNCHANGED <<env, fs, task, tries, err, raw, cleaned, table, tableExists, table0, run, snap>>

\* Two transactions wait for each other's uncommitted key: the database
\* aborts one of them with a deadlock error
deadlock_abort(p) ==
    /\ ld[p].pc = "insert"
    /\ ld[p].idx <= Len(ld[p].rows)
    /\ \E q \in DOMAIN ld \ {p} :
          /\ ld[q].pc = "insert"
          /\ ld[q].idx <= Len(ld[q].rows)
          /\ Blocked(p, Tuple(ld[p].rows[ld[p].idx]))
          /\ Blocked(q, Tuple(ld[q].rows[ld[q].idx]))
    /\ ld' = [ld EXCEPT ![p] = Failed(@, "DeadlockDetected")]
    /\ UNCHANGED <<env, fs, task, tries, err, raw, cleaned, table, tableExists, table0, run, snap, faults>>

-----------------------------------------------------------------------------
(* The scheduler: extract >> transform >> load, one run after another *)

LoadTask == 1

\* @task(retries=1) def extract
extract ==
    /\ task["extract"] = "none"
    /\ LET res == extract_body(fs[csv_path])
       IN  IF res.ok
           THEN /\ task' = [task EXCEPT !["extract"] = "success"]
                /\ raw' = Some(res.rows)
                /\ UNCHANGED <<tries, err>>
           ELSE /\ task' = [task EXCEPT !["extract"] =
                              IF tries < ExtractRetries THEN "none" ELSE "failed"]
                /\ tries' = tries + 1
                /\ err' = [err EXCEPT !["extract"] = res.err]
                /\ raw' = raw
    /\ UNCHANGED <<env, fs, cleaned, ld, table, tableExists, table0, run, snap, faults>>

\* @task def transform (no retries), run once extract has succeeded; its
\* result goes to load
transform ==
    /\ task["extract"] = "success"
    /\ task["transform"] = "none"
    /\ LET res == transform_body(raw.rows)
       IN  IF res.ok
           THEN /\ task' = [task EXCEPT !["transform"] = "success"]
                /\ cleaned' = Some(res.rows)
                /\ ld' = [ld EXCEPT ![LoadTask] = Ready(res.rows)]
                /\ err' = err
           ELSE /\ task' = [task EXCEPT !["transform"] = "failed"]
                /\ err' = [err EXCEPT !["transform"] = res.err]
                /\ UNCHANGED <<cleaned, ld>>
    /\ UNCHANGED <<env, fs, tries, raw, table, tableExists, table0, run, snap, faults>>

\* A task whose upstream did not succeed is never run
skip_transform ==
    /\ task["extract"] = "failed"
    /\ task["transform"] = "none"
    /\ task' = [task EXCEPT !["transform"] = "upstream_failed"]
    /\ UNCHANGED <<env, fs, tries, err, raw, cleaned, ld, table, tableExists, table0, run, snap, faults>>

skip_load ==
    /\ task["transform"] \in {"failed", "upstream_failed"}
    /\ ld[LoadTask].pc = "wait"
    /\ ld' = [ld EXCEPT ![LoadTask].pc = "upstream_failed"]
    /\ UNCHANGED <<env, fs, task, tries, err, raw, cleaned, table, tableExists, table0, run, snap, faults>>

RunOver == ld[LoadTask].pc \in {"success", "failed", "upstream_failed"}

RunOk == ld[LoadTask].pc = "success"

\* @daily: the next run starts from nothing but the file and the table
next_run ==
    /\ RunOver
    /\ run < MaxRuns
    /\ run' = run + 1
    /\ snap' = [ok |-> RunOk, rows |-> table]
    /\ table0' = [exists |-> tableExists, rows |-> table]
    /\ task' = [t \in {"extract", "transform"} |-> "none"]
    /\ tries' = 0
    /\ err' = [t \in {"extract", "transform"} |-> NoErr]
    /\ raw' = None
    /\ cleaned' = None
    /\ ld' = [ld EXCEPT ![LoadTask] = Idle]
    /\ UNCHANGED <<env, fs, table, tableExists, faults>>

-----------------------------------------------------------------------------
(* The files and tables the runs start from *)

SeqsUpTo(S, n) == UNION {[1..m -> S] : m \in 0..n}

Restrict(r, h) == [c \in h |-> r[c]]

\* A well-formed line of vendas.csv
Line(id, product) ==
    [c \in AllCols |->
        CASE c = "sale_id" -> id
          [] c = "product" -> product
          [] c = "category" -> "c"
          [] c = "region" -> "r"
          [] c = "quantity" -> IF id = "1" THEN "2" ELSE "3"
          [] c = "price" -> "1.5"
          [] c = "sale_date" -> "2025-01-05"
          [] OTHER -> "99.9"]

\* Per column, the texts that are empty, malformed or in need of conversion
Damage ==
    {<<"sale_id", "">>, <<"sale_id", "abc">>,
     <<"quantity", "">>, <<"quantity", "abc">>, <<"quantity", "2.5">>,
     <<"price", "">>, <<"price", "abc">>,
     <<"sale_date", "">>, <<"sale_date", "bad">>, <<"sale_date", "2025/01/06">>}

Lines ==
    {Line("1", "A"), Line("2", "A")}
        \cup {[Line("1", "A") EXCEPT ![d[1]] = d[2]] : d \in Damage}

\* Headers: any of the required columns may be missing; a header that has them
\* all may lack total, or category and region
Headers ==
    {h \in SUBSET AllCols :
        IF required \subseteq h THEN ("category" \in h) = ("region" \in h)
        ELSE (AllCols \ required) \subseteq h}

\* Under a header that lacks a required column the lines are the well-formed
\* ones and one malformed one; under the others, every line
LinesUnder(h) ==
    IF required \subseteq h THEN Lines
    ELSE {Line("1", "A"), Line("2", "A"), [Line("1", "A") EXCEPT !["quantity"] = "abc"]}

Files ==
    UNION {{[exists |-> TRUE, header |-> h, rows |-> q] :
                q \in SeqsUpTo({Restrict(r, h) : r \in LinesUnder(h)}, MaxRows)} :
           h \in Headers}

\* What lies at the path extract does not read
Decoy == [exists |-> TRUE, header |-> AllCols, rows |-> <<Line("2", "A")>>]

\* The file system with file f at path at: the other path holds a file iff f is absent
FileSystem(at, f) ==
    [path \in {default, OtherPath} |->
        IF path = at THEN f ELSE IF f.exists THEN NoFile ELSE Decoy]

\* A row some earlier load left in vendas
OldRow ==
    [c \in AllCols |->
        CASE c = "sale_id" -> IntC(1)
          [] c = "quantity" -> IntC(7)
          [] c = "price" -> FloatC(10)
          [] c = "total" -> FloatC(70)
          [] c = "sale_date" -> StrC("2024-12-31")
          [] OTHER -> StrC("Z")]

Tables == {[exists |-> FALSE, rows |-> <<>>], [exists |-> TRUE, rows |-> <<OldRow>>]}

Init ==
    /\ env \in {Unset, [set |-> TRUE, val |-> OtherPath]}
    /\ fs \in {FileSystem(csv_path, f) : f \in {NoFile} \cup Files}
    /\ table0 \in Tables
    /\ table = table0.rows
    /\ tableExists = table0.exists
    /\ task = [t \in {"extract", "transform"} |-> "none"]
    /\ tries = 0
    /\ err = [t \in {"extract", "transform"} |-> NoErr]
    /\ raw = None
    /\ cleaned = None
    /\ ld = [p \in {LoadTask} |-> Idle]
    /\ run = 1
    /\ snap = [ok |-> FALSE, rows |-> <<>>]
    /\ faults = 0

Next ==
    \/ extract
    \/ transform
    \/ skip_transform
    \/ skip_load
    \/ load_begin(LoadTask)
    \/ load_create(LoadTask)
    \/ load_insert(LoadTask)
    \/ load_commit(LoadTask)
    \/ db_fault(LoadTask)
    \/ next_run

Spec == Init /\ [][Next]_vars

-----------------------------------------------------------------------------
(* Overlapping executions of load: the load tasks of two runs whose        *)
(* transactions interleave, each retried from scratch when it fails.       *)

OverlapRuns == {1, 2}

\* What transform hands to load for the files of well-formed lines
Batches ==
    {transform_body(read_csv([exists |-> TRUE, header |-> AllCols, rows |-> q])).rows :
        q \in SeqsUpTo({Line("1", "A"), Line("1", "X"), Line("2", "A")}, MaxBatch)}

InitOverlap ==
    /\ env = Unset
    /\ fs = FileSystem(default, NoFile)
    /\ table0 \in Tables
    /\ table = table0.rows
    /\ tableExists = table0.exists
    /\ task = [t \in {"extract", "transform"} |-> "success"]
    /\ tries = 0
    /\ err = [t \in {"extract", "transform"} |-> NoErr]
    /\ raw = None
    /\ cleaned = None
    /\ ld \in [OverlapRuns -> {Ready(b) : b \in Batches}]
    /\ run = 1
    /\ snap = [ok |-> FALSE, rows |-> <<>>]
    /\ faults = 0

NextOverlap ==
    \E p \in OverlapRuns :
        \/ load_begin(p)
        \/ load_create(p)
        \/ load_insert(p)
        \/ load_commit(p)
        \/ db_fault(p)
        \/ deadlock_abort(p)

SpecOverlap == InitOverlap /\ [][NextOverlap]_vars

-----------------------------------------------------------------------------
(* Properties *)

Load == ld[LoadTask]

\* The file at the path SALES_CSV names if it is set, at the default path otherwise
Resolved == fs[IF env.set THEN env.val ELSE "/usr/local/airflow/include/vendas.csv"]

TransformRan == task["transform"] \in {"success", "failed"}

LoadNotInvoked == Load.pc \in {"wait", "upstream_failed"}

TableAsAtRunStart == table = table0.rows /\ tableExists = table0.exists

Observed == Columns(raw.rows)

UniqueIds(q) == \A i, j \in 1..Len(q) : q[i]["sale_id"] = q[j]["sale_id"] => i = j

\* The first record of a batch that carries the key id
FirstWithId(rows, id) ==
    rows[CHOOSE i \in 1..Len(rows) :
            /\ rows[i]["sale_id"].v = id
            /\ \A j \in 1..(i - 1) : rows[j]["sale_id"].v # id]

\* C1: once a run of the pipeline has succeeded on a file, a further run on
\* the same file leaves vendas exactly as the first left it, and no task of
\* it fails for a reason other than the database failing a statement.
C1_SecondRunChangesNothing ==
    (run > 1 /\ snap.ok) =>
        /\ table = snap.rows
        /\ task["extract"] # "failed"
        /\ task["transform"] # "failed"
        /\ Load.pc # "upstream_failed"
        /\ Load.err \in {"", "OperationalError"}

C1_Witness ==
    /\ run = 2
    /\ snap.ok
    /\ Load.pc = "success"
    /\ Len(Load.rows) = 2
    /\ Len(table) = 2
    /\ table0.rows = table

\* C2: vendas never holds two rows with one sale_id; a stored row is never
\* changed or removed; a row that appears is, for some execution of load
\* that commits in that step, the first record of its batch with that
\* sale_id; no execution fails on the duplicate; and when an execution
\* completes, every sale_id of its batch is in the table.
C2_WriteOncePerId ==
    [][/\ UniqueIds(table')
       /\ Range(table) \subseteq Range(table')
       /\ \A r \in Range(table') \ Range(table) :
             \E p \in DOMAIN ld :
                /\ ld[p].pc = "insert"
                /\ ld'[p].pc = "success"
                /\ r["sale_id"].v \in Ids(ld[p].rows)
                /\ r = Tuple(FirstWithId(ld[p].rows, r["sale_id"].v))
       /\ \A p \in DOMAIN ld :
             /\ ld'[p].err # "UniqueViolation"
             /\ (ld[p].pc # "success" /\ ld'[p].pc = "success")
                    => Ids(ld[p].rows) \subseteq Ids(table')]_vars

C2_Witness ==
    \E p \in DOMAIN ld, q \in DOMAIN ld :
        /\ p # q
        /\ ld[p].pc = "success"
        /\ ld[q].pc = "success"
        /\ Len(ld[p].rows) = 2
        /\ ld[p].rows[1]["sale_id"] = ld[p].rows[2]["sale_id"]
        /\ ld[p].rows[1] # ld[p].rows[2]
        /\ Tuple(ld[p].rows[1]) \in Range(table)
        /\ Len(ld[q].rows) = 2
        /\ ld[q].rows[1] = ld[p].rows[2]
        /\ ld[q].rows[2]["sale_id"] # ld[q].rows[1]["sale_id"]
        /\ Tuple(ld[q].rows[2]) \in Range(table)

\* C3: when one of sale_id, product, quantity, price, sale_date is not among
\* the columns transform observes (none at all for the empty sequence),
\* transform fails with the validation error that reports exactly the
\* required columns not observed, and returns nothing; when all five are
\* observed the validation error is never raised.
C3_RequiredColumns ==
    TransformRan =>
        IF {"sale_id", "product", "quantity", "price", "sale_date"} \subseteq Observed
        THEN err["transform"].kind # "MissingColumns"
        ELSE /\ task["transform"] = "failed"
             /\ err["transform"] =
                    [kind |-> "MissingColumns",
                     cols |-> {"sale_id", "product", "quantity", "price", "sale_date"} \ Observed]
             /\ cleaned = None

C3_Witness ==
    /\ TransformRan
    /\ Len(raw.rows) = 2
    /\ err["transform"] = [kind |-> "MissingColumns", cols |-> {"product", "price"}]
    /\ cleaned = None

\* Texts of the four checked fields that are empty or well-formed
NullOrWellFormed(c, x) ==
    \/ x = ""
    \/ IF c = "sale_date" THEN x \in DateLits ELSE x \in NumLits

\* C4: on a file with the required columns whose sale_id, quantity, price
\* and sale_date cells are each empty or well-formed, transform succeeds
\* and returns exactly the rows with none of the four empty.
C4_NullRowsDropped ==
    (/\ TransformRan
     /\ Resolved.exists
     /\ required \subseteq Observed
     /\ \A i \in 1..Len(Resolved.rows) : \A c \in dropna_subset : NullOrWellFormed(c, Resolved.rows[i][c]))
    => /\ task["transform"] = "success"
       /\ Len(cleaned.rows) = Cardinality({i \in 1..Len(Resolved.rows) :
                                        \A c \in dropna_subset : Resolved.rows[i][c] # ""})
       /\ \A i \in 1..Len(cleaned.rows) : \A c \in dropna_subset : cleaned.rows[i][c].k # "null"

\* C5: while the file is absent every attempt of extract fails with the
\* not-found error, transform and load are never invoked and the table is
\* as the run found it; in any run transform is invoked only after extract
\* has succeeded, and load only after transform has.
C5_MissingFileStopsTheRun ==
    /\ ~Resolved.exists =>
          /\ task["extract"] # "success"
          /\ raw = None
          /\ tries > 0 => err["extract"].kind = "FileNotFoundError"
          /\ task["extract"] = "failed" => tries = 2
          /\ ~TransformRan
          /\ LoadNotInvoked
          /\ TableAsAtRunStart
    /\ TransformRan => task["extract"] = "success"
    /\ ~LoadNotInvoked => task["transform"] = "success"

C5_Witness ==
    /\ ~Resolved.exists
    /\ task["extract"] = "failed"
    /\ tries = 2
    /\ task["transform"] = "upstream_failed"
    /\ Load.pc = "upstream_failed"

\* C6: the step load takes on an empty batch ends it in success with no
\* database call made (no connection, no statement, no commit) and leaves
\* the table's rows and its existence as they were.
C6_EmptyBatchNoOp ==
    [][(Load.pc = "ready" /\ Load.rows = <<>> /\ ld'[LoadTask] # Load) =>
           /\ ld'[LoadTask].pc = "success"
           /\ ld'[LoadTask].calls = <<>>
           /\ table' = table
           /\ tableExists' = tableExists]_vars

C6_Witness ==
    /\ Load.pc = "success"
    /\ Load.rows = <<>>
    /\ Load.calls = <<>>
    /\ raw.some
    /\ Len(raw.rows) = 2
    /\ ~tableExists

\* C7: the table exists (committed) before the first INSERT of a batch; a
\* step in which an attempt of load fails leaves the rows of the table as
\* they were, and leaves the table in existence if its creation had been
\* committed; the rows of the table change only in the step that commits a
\* whole batch.
C7_BatchAtomic ==
    [][/\ ld'[LoadTask].pc = "insert" => tableExists'
       /\ ld'[LoadTask].tries > Load.tries =>
             /\ table' = table
             /\ ld'[LoadTask].pending = <<>>
             /\ (Load.pc = "insert" \/ ld'[LoadTask].err = "KeyError") => tableExists'
       /\ table' # table =>
             /\ Load.pc = "insert"
             /\ Load.idx > Len(Load.rows)
             /\ ld'[LoadTask].pc = "success"
             /\ Ids(Load.rows) \subseteq Ids(table')]_vars

C7_Witness ==
    /\ Load.tries = 1
    /\ Load.err = "OperationalError"
    /\ Load.pc = "ready"
    /\ Load.idx = 2
    /\ Len(Load.rows) = 2
    /\ ~table0.exists
    /\ tableExists
    /\ table = <<>>

\* C8: every record transform returns has total = quantity * price of its
\* own coerced quantity (an integer) and price (a float), also when the
\* input carried a total column.
C8_TotalDerived ==
    task["transform"] = "success" =>
        \A i \in 1..Len(cleaned.rows) :
            /\ cleaned.rows[i]["quantity"].k = "int"
            /\ cleaned.rows[i]["price"].k = "float"
            /\ cleaned.rows[i]["total"] = FloatC(cleaned.rows[i]["quantity"].v * cleaned.rows[i]["price"].v)

C8_Witness ==
    /\ task["transform"] = "success"
    /\ "total" \in Observed
    /\ Len(cleaned.rows) = 2
    /\ \E i \in 1..Len(raw.rows) : raw.rows[i]["quantity"] = FloatC(25) /\ raw.rows[i]["total"] = FloatC(999)
    /\ \E i \in 1..Len(cleaned.rows) : cleaned.rows[i]["quantity"] = IntC(2) /\ cleaned.rows[i]["total"] = FloatC(30)

\* A text that is neither empty nor a literal of the field's type
Malformed(c, x) ==
    /\ x # ""
    /\ IF c = "sale_date" THEN x \notin DateLits ELSE x \notin NumLits

\* C9: when a cell of sale_id, quantity, price or sale_date of any one
\* record is malformed (the required columns being there), transform fails
\* and returns no record, load is not invoked in that run and the table is
\* as the run found it.
C9_WholeBatchFails ==
    (/\ TransformRan
     /\ Resolved.exists
     /\ required \subseteq Observed
     /\ \E i \in 1..Len(Resolved.rows) : \E c \in dropna_subset : Malformed(c, Resolved.rows[i][c]))
    => /\ task["transform"] = "failed"
       /\ err["transform"].kind = "CoercionError"
       /\ cleaned = None
       /\ LoadNotInvoked
       /\ TableAsAtRunStart

C9_Witness ==
    /\ task["transform"] = "failed"
    /\ err["transform"].kind = "CoercionError"
    /\ Len(raw.rows) = 2
    /\ \E i \in 1..Len(Resolved.rows) : \A c \in dropna_subset : Resolved.rows[i][c] \in NumLits \cup DateLits
    /\ Load.pc = "upstream_failed"

\* C10: however the executions of load interleave and are retried, vendas
\* never holds two rows with one sale_id, no execution fails on a duplicate
\* key, and once every execution has committed the sale_ids in the table
\* are those it held before together with those of the batches.
C10_OverlapSafe ==
    /\ UniqueIds(table)
    /\ \A p \in DOMAIN ld : ld[p].err # "UniqueViolation"
    /\ (\A p \in DOMAIN ld : ld[p].pc = "success") =>
          Ids(table) = Ids(table0.rows) \cup UNION {Ids(ld[p].rows) : p \in DOMAIN ld}

C10_Witness ==
    /\ \A p \in DOMAIN ld : ld[p].pc = "success" /\ Len(ld[p].rows) = 2
    /\ \E p \in DOMAIN ld : ld[p].err = "DeadlockDetected"
    /\ \E p \in DOMAIN ld : ld[p].err = "OperationalError"
    /\ Len(table) = 2

====
